---- MODULE Spec2Model ----
(***************************************************************************)
(* Model of nokari's text-argument parser (src/nokari/utils/parser.py):    *)
(* ArgumentParser (the Schema), _Parser (the Parse Session) and the parse  *)
(* loop.  A Python str is a sequence of one-character strings; None as a   *)
(* dict key is NoneKey; a dict is a function whose DOMAIN is its key set.  *)
(***************************************************************************)
EXTENDS Integers, Sequences, FiniteSets, TLC

VARIABLES parser, sess, returned

vars == <<parser, sess, returned>>

----------------------------------------------------------------------------
(* Python str primitives used by the parser.                               *)

RECURSIVE LStripDash(_), RStripSp(_), LStripSp(_), Replace(_, _, _)
RECURSIVE SplitAcc(_, _, _, _), Join(_, _)

\* str.lower() on one character (the alphabet's upper-case letters).
LowerChar(c) ==
  CASE c = "H" -> "h"
    [] c = "C" -> "c"
    [] OTHER -> c

\* str.lower()
Lower(s) == [i \in 1..Len(s) |-> LowerChar(s[i])]

\* str.lstrip("-")
LStripDash(s) ==
  IF s # <<>> /\ Head(s) = "-" THEN LStripDash(Tail(s)) ELSE s

LStripSp(s) ==
  IF s # <<>> /\ Head(s) = " " THEN LStripSp(Tail(s)) ELSE s

RStripSp(s) ==
  IF s # <<>> /\ s[Len(s)] = " " THEN RStripSp(SubSeq(s, 1, Len(s) - 1)) ELSE s

\* str.strip()
Strip(s) == RStripSp(LStripSp(s))

\* str.replace(ch, rep) for a one-character ch and a string rep
Replace(s, ch, rep) ==
  IF s = <<>> THEN <<>>
  ELSE (IF Head(s) = ch THEN rep ELSE <<Head(s)>>) \o Replace(Tail(s), ch, rep)

SplitAcc(s, ch, cur, acc) ==
  IF s = <<>> THEN Append(acc, cur)
  ELSE IF Head(s) = ch THEN SplitAcc(Tail(s), ch, <<>>, Append(acc, cur))
  ELSE SplitAcc(Tail(s), ch, Append(cur, Head(s)), acc)

\* str.split(ch): the list of parts, empty parts kept
Split(s, ch) == SplitAcc(s, ch, <<>>, <<>>)

\* sep.join(parts)
Join(parts, sep) ==
  IF parts = <<>> THEN <<>>
  ELSE IF Len(parts) = 1 THEN parts[1]
  ELSE parts[1] \o sep \o Join(Tail(parts), sep)

\* s.startswith(pre)
StartsWith(s, pre) == Len(s) >= Len(pre) /\ SubSeq(s, 1, Len(pre)) = pre

\* s[a:b] with Python's 0-based, clamped slice bounds
Slice(s, a, b) ==
  LET hi == IF b > Len(s) THEN Len(s) ELSE b IN SubSeq(s, a + 1, hi)

\* set(s)
CharSet(s) == {s[i] : i \in 1..Len(s)}

\* dict.get(field, default) on a record
Get(v, f, d) == IF f \in DOMAIN v THEN v[f] ELSE d

\* None used as a dict key / as a name
NoneKey == <<"None">>

\* the absent value of a params lookup (dict.get returning None)
NoEntry == [none |-> TRUE]

\* Python values held in _Parser.data and in the Result Record: a list of
\* words, a bool, a str, or None
VList(xs) == [kind |-> "list", b |-> FALSE, s |-> <<>>, items |-> xs]
VBool(b) == [kind |-> "bool", b |-> b, s |-> <<>>, items |-> <<>>]
VStr(s) == [kind |-> "str", b |-> FALSE, s |-> s, items |-> <<>>]
VNone == [kind |-> "none", b |-> FALSE, s |-> <<>>, items |-> <<>>]
VTrue == VBool(TRUE)

\* bool(v): the truth value Python gives v
Truthy(v) ==
  CASE v.kind = "list" -> v.items # <<>>
    [] v.kind = "bool" -> v.b
    [] v.kind = "str" -> v.s # <<>>
    [] OTHER -> FALSE

\* d[k] = v on a dict
DictSet(d, k, v) == [x \in DOMAIN d \cup {k} |-> IF x = k THEN v ELSE d[x]]

\* del d[k]
DictDel(d, k) == [x \in DOMAIN d \ {k} |-> d[x]]

----------------------------------------------------------------------------
(* The Tokenizer (StringView): cursor `index` (0-based) over `buffer`.     *)

Quote == "\""
Space == " "

RECURSIVE FindFrom(_, _, _), skip_char(_, _, _)

\* the least position >= i holding ch, Len(buffer) when there is none
FindFrom(buffer, i, ch) ==
  IF i >= Len(buffer) THEN Len(buffer)
  ELSE IF buffer[i + 1] = ch THEN i
  ELSE FindFrom(buffer, i + 1, ch)

\* StringView.eof
eof(buffer, index) == index >= Len(buffer)

\* StringView.skip_char: the cursor moved past a contiguous run of ch
skip_char(buffer, index, ch) ==
  IF ~eof(buffer, index) /\ buffer[index + 1] = ch
  THEN skip_char(buffer, index + 1, ch)
  ELSE index

\* StringView.get_quoted_word: sig "none" at end-of-input, "word" with the
\* token (quotes excluded) and the new cursor, or "quote" (the unterminated
\* quote signal) with the cursor left at the end of what was scanned.
get_quoted_word(buffer, index) ==
  IF eof(buffer, index) THEN [sig |-> "none", word |-> <<>>, index |-> index]
  ELSE IF buffer[index + 1] = Quote
  THEN LET j == FindFrom(buffer, index + 1, Quote) IN
       IF j >= Len(buffer)
       THEN [sig |-> "quote", word |-> <<>>, index |-> Len(buffer)]
       ELSE [sig |-> "word", word |-> Slice(buffer, index + 1, j), index |-> j + 1]
  ELSE LET j == FindFrom(buffer, index, Space) IN
       [sig |-> "word", word |-> Slice(buffer, index, j), index |-> j]

----------------------------------------------------------------------------
(* ArgumentParser.__init__: the Schema.  params is the dict in insertion   *)
(* order, each entry carrying its lookup key.                              *)

\* lines 114-120: name defaults to the lookup key, aliases to []
NormEntry(v) ==
  [f \in DOMAIN v \cup {"name", "aliases"} |->
     IF f = "name" THEN (IF Get(v, "name", <<>>) = <<>> THEN v.key ELSE v.name)
     ELSE IF f = "aliases" THEN Get(v, "aliases", <<>>)
     ELSE v[f]]

\* params.get(key) / params[key]
HasKey(params, key) == \E i \in 1..Len(params) : params[i].key = key

Entry(params, key) ==
  IF HasKey(params, key)
  THEN params[CHOOSE i \in 1..Len(params) : params[i].key = key]
  ELSE NoEntry

\* two entries claim the same canonical name or alias
Claimed(v) == {v.name} \cup {v.aliases[j] : j \in 1..Len(v.aliases)}

NameClash(params) ==
  \/ \E i, j \in 1..Len(params) : i # j /\ Claimed(params[i]) \cap Claimed(params[j]) # {}
  \/ \E i \in 1..Len(params) :
        \/ \E a, b \in 1..Len(params[i].aliases) :
              a # b /\ params[i].aliases[a] = params[i].aliases[b]
        \/ \E a \in 1..Len(params[i].aliases) : params[i].aliases[a] = params[i].name

ArgumentParserInit(cfg) ==
  LET params == [i \in 1..Len(cfg.params) |-> NormEntry(cfg.params[i])] IN
  [ state |-> "ready",
    params |-> params,
    force |-> cfg.force,
    replace |-> cfg.replace,
    valid_names |-> UNION {Claimed(params[i]) : i \in 1..Len(params)},
    short_flags |-> {params[i].key : i \in
                       {j \in 1..Len(params) :
                          /\ "argmax" \in DOMAIN params[j]
                          /\ params[j].argmax = 0
                          /\ params[j].key # params[j].name}},
    _default_key |-> cfg.append_remainder_to,
    _default_name |-> IF cfg.append_remainder_to # NoneKey
                      THEN Entry(params, cfg.append_remainder_to).name
                      ELSE NoneKey ]

----------------------------------------------------------------------------
(* _Parser: the Parse Session of one parse call.                           *)

NoneDict == [name |-> NoneKey]

IdleSession ==
  [ pc |-> "idle", argument |-> <<>>, buffer |-> <<>>, index |-> 0,
    current_dict |-> NoneDict, current_key |-> NoneKey,
    data |-> <<>>, result |-> <<>>, error |-> "" ]

\* _Parser.__init__ with the accumulators kept on the ArgumentParser: a call
\* that begins while another is in its loop starts from that call's data
_ParserInit_SharedData(p, argument) ==
  LET current_key == IF p._default_key # NoneKey THEN p._default_name ELSE NoneKey
      current_dict == IF p._default_key # NoneKey
                      THEN Entry(p.params, p._default_key)
                      ELSE NoneDict
      others == {j \in DOMAIN sess : sess[j].pc = "loop"} IN
  [ pc |-> "loop", argument |-> argument, buffer |-> argument, index |-> 0,
    current_dict |-> current_dict, current_key |-> current_key,
    data |-> IF others = {} THEN DictSet(<<>>, current_key, VList(<<>>))
             ELSE DictSet(sess[CHOOSE j \in others : TRUE].data,
                          current_key, VList(<<>>)),
    result |-> <<>>, error |-> "" ]

\* _Parser.__init__
_ParserInit(p, argument) ==
  LET current_key == IF p._default_key # NoneKey THEN p._default_name ELSE NoneKey
      current_dict == IF p._default_key # NoneKey
                      THEN Entry(p.params, p._default_key)
                      ELSE NoneDict IN
  [ pc |-> "loop", argument |-> argument, buffer |-> argument, index |-> 0,
    current_dict |-> current_dict, current_key |-> current_key,
    data |-> DictSet(<<>>, current_key, VList(<<>>)),
    result |-> <<>>, error |-> "" ]

----------------------------------------------------------------------------
(* ArgumentParser.process_word and ArgumentParser.append.  Each returns    *)
(* the session fields it leaves, its return value and the exception, if    *)
(* any, it raises.                                                         *)

RECURSIVE PeelFlags(_, _, _, _)

\* lines 154-156 with the result of str.replace thrown away: the flags are
\* set, the token keeps its characters
PeelFlags_KeepsChars(params, flags, argument, data) ==
  [argument |-> argument,
   data |-> [k \in DOMAIN data \cup {Entry(params, f).name : f \in flags} |->
               IF k \in {Entry(params, f).name : f \in flags} THEN VTrue ELSE data[k]]]

\* lines 154-156: every short flag found is cut out of the token and set
PeelFlags(params, flags, argument, data) ==
  IF flags = {} THEN [argument |-> argument, data |-> data]
  ELSE LET f == CHOOSE x \in flags : TRUE IN
       PeelFlags(params, flags \ {f},
                 Replace(argument, f[1], <<>>),
                 DictSet(data, Entry(params, f).name, VTrue))

\* lines 164-168: the first entry whose name or aliases hold key
LongLookup(p, key) ==
  IF key \in p.valid_names
     /\ \E i \in 1..Len(p.params) : key \in Claimed(p.params[i])
  THEN p.params[CHOOSE i \in 1..Len(p.params) :
                   /\ key \in Claimed(p.params[i])
                   /\ \A j \in 1..(i - 1) : key \notin Claimed(p.params[j])]
  ELSE NoneDict

\* line 147, with the arity of a value option mistaken for a flag's
IsJustFlag_WrongArity(td) == Get(td, "argmax", -1) = 1

\* line 147: the matched short form is just a flag
IsJustFlag(td) == Get(td, "argmax", -1) = 0

\* line 161 finding nothing
SuffixLookup_Never(params, argument) == NoEntry

\* line 161: params.get(argument[1:]) on what the peeling left
SuffixLookup(params, argument) ==
  Entry(params, Slice(argument, 1, Len(argument)))

\* line 151 never taken
IsOwnName_Never(td, key) == FALSE

\* line 151: the text after the dash is a lookup key that is its own
\* canonical name
IsOwnName(td, key) == td # NoEntry /\ td.name = key

\* lines 141-168: classification.  early: the function returned False at
\* line 150 or 159; raised: argument[1] or argument[2] was out of range.
Classify(p, data, argument, allow_sf) ==
  LET key == Lower(LStripDash(argument))
      td == Entry(p.params, key)
      joined == {f \in p.short_flags : Len(f) = 1 /\ f[1] \in CharSet(key)}
      out(early, raised, d, tmp, arg) ==
        [early |-> early, raised |-> raised, data |-> d, temp_dict |-> tmp,
         argument |-> arg]
  IN
  IF argument = <<>> \/ (argument[1] = "-" /\ Len(argument) < 2)
  THEN out(FALSE, "IndexError", data, NoneDict, argument)
  ELSE IF argument[1] = "-" /\ argument[2] # "-"
  THEN IF td # NoEntry /\ td.name # key
       THEN IF IsJustFlag(td)
            THEN out(TRUE, "", DictSet(data, td.name, VTrue), td, argument)
            ELSE out(FALSE, "", data, td, argument)
       ELSE IF IsOwnName(td, key)
       THEN out(FALSE, "", data, NoneDict, argument)
       ELSE IF allow_sf /\ joined # {}
       THEN LET pl == PeelFlags(p.params, joined, argument, data) IN
            IF pl.argument = <<"-">>
            THEN out(TRUE, "", pl.data, NoEntry, pl.argument)
            ELSE out(FALSE, "", pl.data, SuffixLookup(p.params, pl.argument),
                     pl.argument)
       ELSE out(FALSE, "", data, NoEntry, argument)
  ELSE IF StartsWith(argument, <<"-", "-">>)
  THEN IF Len(argument) < 3
       THEN out(FALSE, "IndexError", data, NoneDict, argument)
       ELSE IF argument[3] # "-"
       THEN out(FALSE, "", data, LongLookup(p, key), argument)
       ELSE out(FALSE, "", data, NoneDict, argument)
  ELSE out(FALSE, "", data, NoneDict, argument)

\* lines 170-179, first operand: no option matched and force is off
Unmatched(p, temp_dict) == temp_dict.name = NoneKey /\ ~p.force

\* lines 174-175, second operand: the option is in data, replace is off and
\* the default accumulator is not empty
KeepExisting(p, data, temp_dict) ==
  /\ temp_dict.name \in DOMAIN data
  /\ ~p.replace
  /\ Truthy(data[p._default_name])

\* lines 177-179 when the first operand short-circuited the condition:
\* `lst` was never bound, so reading it raises UnboundLocalError.
UnmatchedFallback(p, s, data, argument) ==
  [ret |-> FALSE, raised |-> "UnboundLocalError", data |-> data,
   current_dict |-> s.current_dict, current_key |-> s.current_key]

\* lines 181-185 without the restart of the accumulator
SwitchTarget_KeepsAccumulator(p, s, data, temp_dict) ==
  [ret |-> TRUE, raised |-> "",
   data |-> IF temp_dict.name \in DOMAIN data
            THEN data
            ELSE DictSet(data, temp_dict.name, VList(<<>>)),
   current_dict |-> temp_dict, current_key |-> temp_dict.name]

\* lines 181-185: switch the current target
SwitchTarget(p, s, data, temp_dict) ==
  [ret |-> TRUE, raised |-> "",
   data |-> IF temp_dict.name # p._default_name
            THEN DictSet(data, temp_dict.name, VList(<<>>))
            ELSE data,
   current_dict |-> temp_dict, current_key |-> temp_dict.name]

process_word(p, s, argument, allow_sf) ==
  LET c == Classify(p, s.data, argument, allow_sf)
      temp_dict == IF c.temp_dict = NoEntry THEN NoneDict ELSE c.temp_dict
      same(ret, raised, d) ==
        [ret |-> ret, raised |-> raised, data |-> d,
         current_dict |-> s.current_dict, current_key |-> s.current_key]
  IN
  IF c.raised # "" THEN same(FALSE, c.raised, c.data)
  ELSE IF c.early THEN same(FALSE, "", c.data)
  ELSE IF Unmatched(p, temp_dict)
  THEN UnmatchedFallback(p, s, c.data, c.argument)
  ELSE IF KeepExisting(p, c.data, temp_dict)
  THEN LET lst == c.data[p._default_name] IN
       same(FALSE, "",
            IF lst.kind = "list"
            THEN DictSet(c.data, p._default_name, VList(Append(lst.items, c.argument)))
            ELSE c.data)
  ELSE SwitchTarget(p, s, c.data, temp_dict)

\* line 193 with > for >=
ArityReached_OffByOne(max_length, count) == max_length # -1 /\ count > max_length

\* line 193: the accumulator holds as many words as the arity allows
ArityReached(max_length, count) == max_length # -1 /\ count >= max_length

\* ArgumentParser.append
append(p, s, argument) ==
  LET max_length == Get(s.current_dict, "argmax", -1)
      data == s.data[s.current_key] IN
  IF data.kind = "list"
  THEN LET items == Append(data.items, argument) IN
       [s EXCEPT !.data = DictSet(s.data, s.current_key, VList(items)),
                 !.current_key = IF ArityReached(max_length, Len(items))
                                 THEN p._default_name
                                 ELSE s.current_key]
  ELSE s

----------------------------------------------------------------------------
(* _Parser.finish: the Result Record.                                      *)

s_remainder == <<"r", "e", "m", "a", "i", "n", "d", "e", "r">>

\* line 57 with None as the default of every option
PopDefault_AlwaysNone(is_flag) == VNone

\* line 57: the value of an option that has no entry in data
PopDefault(is_flag) == IF is_flag THEN VBool(FALSE) ELSE VNone

\* lines 58-59 without the replacement of hyphens
FieldKey_KeepsHyphen(k) == k

\* lines 58-59: the field name of the option named k
FieldKey(k) == IF k # NoneKey THEN Replace(k, "-", <<"_">>) ELSE k

\* lines 60-63 with the words joined without a separator
JoinedValue_NoSeparator(is_flag, val) ==
  IF val.kind = "list"
  THEN IF is_flag /\ val.items = <<>>
       THEN VTrue
       ELSE VStr(Join(val.items, <<>>))
  ELSE val

\* lines 60-63: the field value made of what was popped from data
JoinedValue(is_flag, val) ==
  IF val.kind = "list"
  THEN IF is_flag /\ val.items = <<>>
       THEN VTrue
       ELSE VStr(Join(val.items, <<Space>>))
  ELSE val

RECURSIVE FinishLoop(_, _, _)

\* lines 54-63, from the i-th entry of params on
FinishLoop(params, i, data) ==
  IF i > Len(params) THEN data
  ELSE LET v == params[i]
           k == v.name
           is_flag == Get(v, "argmax", -1) = 0
           val == IF k \in DOMAIN data THEN data[k]
                  ELSE PopDefault(is_flag)
           popped == DictDel(data, k)
           k2 == FieldKey(k)
           new == JoinedValue(is_flag, val)
       IN FinishLoop(params, i + 1, DictSet(popped, k2, new))

finish(p, s) ==
  LET d0 == IF p._default_key = NoneKey
            THEN LET remainder == s.data[NoneKey]
                     popped == DictDel(s.data, NoneKey) IN
                 IF remainder.kind = "list"
                 THEN DictSet(popped, s_remainder,
                              VStr(Join(remainder.items, <<Space>>)))
                 ELSE popped
            ELSE s.data
      d1 == FinishLoop(p.params, 1, d0)
  IN DictDel(d1, NoneKey)

----------------------------------------------------------------------------
(* ArgumentParser.parse: one iteration of the loop (lines 209-243).        *)

\* lines 210-220 with the recovery keeping only the second extraction
NextWord_DropsScanned(s) ==
  LET start == skip_char(s.buffer, s.index, Space)
      pass_ == Slice(s.buffer, start, start + 2) = <<Quote, "-">>
      w == get_quoted_word(s.buffer, start)
      w2 == get_quoted_word(s.buffer, w.index)
  IN
  IF w.sig # "quote"
  THEN [raised |-> "", pass_ |-> pass_, argument |-> w.word, index |-> w.index]
  ELSE IF w2.sig = "quote"
  THEN [raised |-> "UnexpectedQuoteError", pass_ |-> pass_,
        argument |-> <<>>, index |-> w2.index]
  ELSE [raised |-> "", pass_ |-> pass_, argument |-> w2.word, index |-> w2.index]

\* lines 210-220: the cursor after the separator run, pass_, and the token
NextWord(s) ==
  LET start == skip_char(s.buffer, s.index, Space)
      pass_ == Slice(s.buffer, start, start + 2) = <<Quote, "-">>
      w == get_quoted_word(s.buffer, start)
      w2 == get_quoted_word(s.buffer, w.index)
  IN
  IF w.sig # "quote"
  THEN [raised |-> "", pass_ |-> pass_, argument |-> w.word, index |-> w.index]
  ELSE IF w2.sig = "quote"
  THEN [raised |-> "UnexpectedQuoteError", pass_ |-> pass_,
        argument |-> <<>>, index |-> w2.index]
  ELSE [raised |-> "", pass_ |-> pass_,
        argument |-> Slice(s.buffer, start, w.index) \o w2.word,
        index |-> w2.index]

\* lines 224-228 without the pass_ test
LooksLikeFlag_IgnoresPass(nw) ==
  LET temp_argument == Strip(nw.argument) IN
  /\ StartsWith(temp_argument, <<"-">>)
  /\ Len(temp_argument) # 1

\* lines 224-228: the token looks like a flag
LooksLikeFlag(nw) ==
  LET temp_argument == Strip(nw.argument) IN
  /\ ~nw.pass_
  /\ StartsWith(temp_argument, <<"-">>)
  /\ Len(temp_argument) # 1

\* lines 229-233: the token splits on "=" into parts none of which is empty
IsShorthand(temp_argument) ==
  LET arguments == Split(temp_argument, "=") IN
  /\ "=" \in CharSet(temp_argument)
  /\ \A i \in 1..Len(arguments) : arguments[i] # <<>>

Raise(s, err) == [s EXCEPT !.pc = "raised", !.error = err]

\* the session after process_word returned r
After(s, r) ==
  IF r.raised # "" THEN Raise([s EXCEPT !.data = r.data], r.raised)
  ELSE [s EXCEPT !.data = r.data, !.current_dict = r.current_dict,
                 !.current_key = r.current_key]

\* lines 240-241
BareFlag(p, s, temp_argument) == After(s, process_word(p, s, temp_argument, TRUE))

\* lines 234-241 without line 235: the whole token is appended as the value
Shorthand_AppendsToken(p, s, temp_argument) ==
  LET arguments == Split(temp_argument, "=")
      key == arguments[1]
      r == process_word(p, s, key, FALSE)
      s1 == After(s, r)
  IN
  IF r.raised # "" THEN s1
  ELSE IF r.ret THEN append(p, s1, temp_argument)
  ELSE BareFlag(p, s1, temp_argument)

\* lines 234-241
Shorthand(p, s, temp_argument) ==
  LET arguments == Split(temp_argument, "=")
      key == arguments[1]
      argument == Join(Tail(arguments), <<"=">>)
      r == process_word(p, s, key, FALSE)
      s1 == After(s, r)
  IN
  IF r.raised # "" THEN s1
  ELSE IF r.ret THEN append(p, s1, argument)
  ELSE BareFlag(p, s1, temp_argument)

\* the body of the loop
LoopBody(p, s) ==
  LET nw == NextWord(s)
      s0 == [s EXCEPT !.index = nw.index]
      temp_argument == Strip(nw.argument)
  IN
  IF nw.raised # "" THEN Raise(s0, nw.raised)
  ELSE IF LooksLikeFlag(nw)
  THEN IF IsShorthand(temp_argument)
       THEN Shorthand(p, s0, temp_argument)
       ELSE BareFlag(p, s0, temp_argument)
  ELSE append(p, s0, nw.argument)

RECURSIVE RunLoop(_, _)

\* lines 209-245 run to the end on a session
RunLoop(p, s) ==
  IF s.pc # "loop" THEN s
  ELSE IF eof(s.buffer, s.index)
  THEN [s EXCEPT !.pc = "done", !.result = finish(p, s)]
  ELSE RunLoop(p, LoopBody(p, s))

\* ArgumentParser.parse as one call on a _Parser of its own
parse(p, argument) == RunLoop(p, _ParserInit(p, argument))

----------------------------------------------------------------------------
(* The configurations and raw strings explored.                            *)

s_h == <<"h">>
s_c == <<"c">>
s_t == <<"t">>
s_s == <<"s">>
s_n == <<"n">>
s_cl == <<"c", "l">>
s_hidden == <<"h", "i", "d", "d", "e", "n">>
s_card == <<"c", "a", "r", "d">>
s_time == <<"t", "i", "m", "e">>
s_color == <<"c", "o", "l", "o", "r">>
s_colour == <<"c", "o", "l", "o", "u", "r">>
s_size == <<"s", "i", "z", "e">>
s_no_op == <<"n", "o", "-", "o", "p">>

\* the options of the spotify command: short flag -> name, aliases, argmax
SchemaA ==
  << [key |-> s_h, name |-> s_hidden, argmax |-> 0],
     [key |-> s_c, name |-> s_card, argmax |-> 0],
     [key |-> s_t, name |-> s_time, argmax |-> 0],
     [key |-> s_cl, name |-> s_color, aliases |-> <<s_colour>>, argmax |-> 1] >>

\* an unbounded option, an option of arity 2, an entry keyed by its own
\* name, and a flag whose name holds a hyphen
SchemaB ==
  << [key |-> s_t, name |-> s_time],
     [key |-> s_s, name |-> s_size, argmax |-> 2],
     [key |-> s_color, argmax |-> 1],
     [key |-> s_n, name |-> s_no_op, argmax |-> 0],
     [key |-> s_h, name |-> s_hidden, argmax |-> 0] >>

\* two entries claiming the name "hidden"
SchemaC ==
  << [key |-> s_h, name |-> s_hidden, argmax |-> 0],
     [key |-> s_c, name |-> s_card, aliases |-> <<s_hidden>>, argmax |-> 0] >>

\* (params, append_remainder_to)
Schemas ==
  { <<SchemaA, NoneKey>>, <<SchemaA, s_cl>>, <<SchemaA, s_h>>,
    <<SchemaB, NoneKey>>, <<SchemaB, s_t>>, <<SchemaC, NoneKey>> }

Configs ==
  { [params |-> sc[1], append_remainder_to |-> sc[2], force |-> f, replace |-> r] :
      sc \in Schemas, f \in BOOLEAN, r \in BOOLEAN }

w_h == <<"-", "h">>
w_htc == <<"-", "h", "t", "c">>
w_ch == <<"-", "c", "h">>
w_cl == <<"-", "c", "l">>
w_s == <<"-", "s">>
w_red == <<"r", "e", "d">>
w_x == <<"x">>
w_color_eq_red == <<"-", "-", "c", "o", "l", "o", "r", "=", "r", "e", "d">>
w_q_h == <<"\"", "-", "h", "\"">>
w_dd == <<"-", "-">>
w_eq_x == <<"-", "=", "x">>
w_z == <<"-", "z">>
w_color == <<"-", "c", "o", "l", "o", "r">>
w_q_ab == <<"\"", "a", "b">>

Words ==
  { w_h, w_htc, w_ch, w_cl, w_s, w_red, w_x, w_color_eq_red, w_q_h,
    w_dd, w_eq_x, w_z, w_q_ab }

\* at most this many words in a raw string
MaxWords == 3

\* the raw strings: up to MaxWords words separated by one space
Inputs ==
  { Join(ws, <<Space>>) : ws \in UNION {[1..n -> Words] : n \in 0..MaxWords} }

----------------------------------------------------------------------------
(* The state machine.  parser is the ArgumentParser instance; sess[i] is   *)
(* the _Parser of the parse call running in slot i; returned logs the      *)
(* <<argument, Result Record>> pair of every call that returned, in order. *)

Slots == {1, 2}

Init ==
  /\ parser \in {[state |-> "new", cfg |-> c] : c \in Configs}
  /\ sess = [i \in Slots |-> IdleSession]
  /\ returned = <<>>

\* ArgumentParser(params, force, replace, append_remainder_to)
Construct ==
  /\ parser.state = "new"
  /\ parser' = ArgumentParserInit(parser.cfg)
  /\ UNCHANGED <<sess, returned>>

\* parse(argument), line 206
Call(i, arguments) ==
  /\ parser.state = "ready"
  /\ sess[i].pc = "idle"
  /\ \E argument \in arguments :
       sess' = [sess EXCEPT ![i] = _ParserInit(parser, argument)]
  /\ UNCHANGED <<parser, returned>>

\* one iteration of the loop that also records the current target among
\* the names of the instance
Step_WritesSchema(i) ==
  /\ sess[i].pc = "loop"
  /\ ~eof(sess[i].buffer, sess[i].index)
  /\ sess' = [sess EXCEPT ![i] = LoopBody(parser, sess[i])]
  /\ parser' = [parser EXCEPT !.valid_names = @ \cup {sess'[i].current_key}]
  /\ UNCHANGED returned

\* one iteration of the loop, lines 209-243
Step(i) ==
  /\ sess[i].pc = "loop"
  /\ ~eof(sess[i].buffer, sess[i].index)
  /\ sess' = [sess EXCEPT ![i] = LoopBody(parser, sess[i])]
  /\ UNCHANGED <<parser, returned>>

\* line 245: the loop ended, parse returns parser.finish()
Finish(i) ==
  /\ sess[i].pc = "loop"
  /\ eof(sess[i].buffer, sess[i].index)
  /\ LET result == finish(parser, sess[i]) IN
       /\ sess' = [sess EXCEPT ![i].pc = "done", ![i].result = result]
       /\ returned' = Append(returned, <<sess[i].argument, result>>)
  /\ UNCHANGED parser

\* one parse call at a time on one instance
Next ==
  \/ Construct
  \/ Call(1, Inputs)
  \/ Step(1)
  \/ Finish(1)

Spec == Init /\ [][Next]_vars

\* the raw strings parsed on a shared instance
SharedInputs ==
  { Join(<<w_color_eq_red, w_x>>, <<Space>>),
    Join(<<w_cl, w_red, w_x>>, <<Space>>),
    Join(<<w_color, w_red, w_x>>, <<Space>>),
    Join(<<w_h, w_red>>, <<Space>>) }

\* at most this many parse calls on one instance
MaxCalls == 3

InFlight == {i \in Slots : sess[i].pc # "idle"}

\* parse(argument) on an instance that other calls use
CallShared(i) ==
  /\ Len(returned) + Cardinality(InFlight) < MaxCalls
  /\ Call(i, SharedInputs)

\* the call of slot i is over (it returned or raised): its _Parser is gone
Return(i) ==
  /\ sess[i].pc \in {"done", "raised"}
  /\ sess' = [sess EXCEPT ![i] = IdleSession]
  /\ UNCHANGED <<parser, returned>>

\* parse calls on one instance, one after another and interleaved
NextShared ==
  \/ Construct
  \/ \E i \in Slots : CallShared(i)
  \/ \E i \in Slots : Step(i)
  \/ \E i \in Slots : Finish(i)
  \/ \E i \in Slots : Return(i)

SpecShared == Init /\ [][NextShared]_vars

----------------------------------------------------------------------------
(* Repeated, long-form and unmatched options.                              *)

\* SchemaB with the short flag c, a character of the key "color"
SchemaD ==
  << [key |-> s_t, name |-> s_time],
     [key |-> s_s, name |-> s_size, argmax |-> 2],
     [key |-> s_color, argmax |-> 1],
     [key |-> s_c, name |-> s_card, argmax |-> 0],
     [key |-> s_h, name |-> s_hidden, argmax |-> 0] >>

OptionSchemas ==
  { <<SchemaA, NoneKey>>, <<SchemaA, s_cl>>, <<SchemaD, NoneKey>>, <<SchemaD, s_t>> }

OptionConfigs ==
  { [params |-> sc[1], append_remainder_to |-> sc[2], force |-> f, replace |-> r] :
      sc \in OptionSchemas, f \in BOOLEAN, r \in BOOLEAN }

w_hidden == <<"-", "-", "h", "i", "d", "d", "e", "n">>
w_t == <<"-", "t">>
w_z_eq_x == <<"-", "z", "=", "x">>

OptionWords ==
  { w_h, w_hidden, w_cl, w_t, w_s, w_color, w_z, w_z_eq_x, w_color_eq_red,
    w_red, w_x }

OptionInputs ==
  { Join(ws, <<Space>>) : ws \in UNION {[1..n -> OptionWords] : n \in 0..MaxWords} }

InitOptions ==
  /\ parser \in {[state |-> "new", cfg |-> c] : c \in OptionConfigs}
  /\ sess = [i \in Slots |-> IdleSession]
  /\ returned = <<>>

NextOptions ==
  \/ Construct
  \/ Call(1, OptionInputs)
  \/ Step(1)
  \/ Finish(1)

SpecOptions == InitOptions /\ [][NextOptions]_vars

----------------------------------------------------------------------------
(* Bundles with a trailing option and tokens that open no option.          *)

BundleSchemas == { <<SchemaD, NoneKey>>, <<SchemaD, s_t>> }

BundleConfigs ==
  { [params |-> sc[1], append_remainder_to |-> sc[2], force |-> f, replace |-> r] :
      sc \in BundleSchemas, f \in BOOLEAN, r \in BOOLEAN }

w_hs == <<"-", "h", "s">>
w_ht == <<"-", "h", "t">>
w_hc == <<"-", "h", "c">>
w_hz == <<"-", "h", "z">>

BundleWords == { w_hs, w_ht, w_hc, w_hz, w_h, w_t, w_s, w_z, w_red, w_x }

BundleInputs ==
  { Join(ws, <<Space>>) : ws \in UNION {[1..n -> BundleWords] : n \in 0..MaxWords} }

InitBundles ==
  /\ parser \in {[state |-> "new", cfg |-> c] : c \in BundleConfigs}
  /\ sess = [i \in Slots |-> IdleSession]
  /\ returned = <<>>

NextBundles ==
  \/ Construct
  \/ Call(1, BundleInputs)
  \/ Step(1)
  \/ Finish(1)

SpecBundles == InitBundles /\ [][NextBundles]_vars

\* the raw strings written character by character: runs of spaces, dashes,
\* quotes, a flag character and a plain character
Chars == {Space, "-", Quote, "h", "x"}

\* at most this many characters in a raw string
MaxChars == 4

CharInputs == UNION {[1..n -> Chars] : n \in 0..MaxChars}

CharConfigs ==
  { [params |-> SchemaA, append_remainder_to |-> NoneKey, force |-> f, replace |-> r] :
      f \in BOOLEAN, r \in BOOLEAN }

InitChars ==
  /\ parser \in {[state |-> "new", cfg |-> c] : c \in CharConfigs}
  /\ sess = [i \in Slots |-> IdleSession]
  /\ returned = <<>>

NextChars ==
  \/ Construct
  \/ Call(1, CharInputs)
  \/ Step(1)
  \/ Finish(1)

SpecChars == InitChars /\ [][NextChars]_vars

----------------------------------------------------------------------------
(* Vocabulary of the properties.                                           *)

Ready == parser.state = "ready"

\* slot i runs one iteration of the parse loop in this step
StepTaken(i) ==
  /\ Ready
  /\ sess[i].pc = "loop"
  /\ ~eof(sess[i].buffer, sess[i].index)
  /\ sess'[i].index > sess[i].index

\* the token the next iteration of slot i handles, and its pass_ bit
TokenOf(s) == Strip(NextWord(s).argument)
PassOf(s) == NextWord(s).pass_

\* the words of a raw string written with single spaces
WordsOf(argument) == IF argument = <<>> THEN <<>> ELSE Split(argument, Space)

\* a word that is neither flag-looking nor quoted
PlainWord(w) == w # <<>> /\ w[1] \notin {"-", Quote} /\ Quote \notin CharSet(w)

AllPlain(ws) == \A k \in 1..Len(ws) : PlainWord(ws[k])

\* the Result Record's field name of an option
FieldName(name) == Replace(name, "-", <<"_">>)

Arity(v) == Get(v, "argmax", -1)

\* the entries of arity 0
FlagEntries(p) == {k \in 1..Len(p.params) : Arity(p.params[k]) = 0}

\* a finished parse call in slot i
Done(i) == Ready /\ sess[i].pc = "done"

NoDefault == parser._default_key = NoneKey

\* the Result Record of slot i has field f with value v
HasField(i, f, v) == f \in DOMAIN sess[i].result /\ sess[i].result[f] = v

----------------------------------------------------------------------------
\* C1: parse never raises: for every raw string and every constructed
\* parser the call runs to end-of-input and returns a Result Record.
C1_ParseNeverRaises == \A i \in Slots : sess[i].pc # "raised"

----------------------------------------------------------------------------
\* the token is a single dash followed by exactly a lookup key that is an
\* alias of an arity-0 option
IsAliasFlagToken(p, tok) ==
  /\ Len(tok) >= 2
  /\ tok[1] = "-"
  /\ tok[2] # "-"
  /\ HasKey(p.params, Tail(tok))
  /\ Entry(p.params, Tail(tok)).name # Tail(tok)
  /\ Arity(Entry(p.params, Tail(tok))) = 0

\* the iteration that handles an alias flag token sets the option to true
\* and changes nothing else of the session
C2_StepEffect ==
  \A i \in Slots :
    (StepTaken(i) /\ ~PassOf(sess[i]) /\ IsAliasFlagToken(parser, TokenOf(sess[i])))
    => LET name == Entry(parser.params, Tail(TokenOf(sess[i]))).name IN
       /\ sess'[i].pc = "loop"
       /\ sess'[i].data = DictSet(sess[i].data, name, VTrue)
       /\ sess'[i].current_key = sess[i].current_key
       /\ sess'[i].current_dict = sess[i].current_dict

\* an alias flag token followed by plain words only, no default key: the
\* flag is true, every other arity-0 option false, the words the remainder
C2_Example ==
  \A i \in Slots :
    (Done(i) /\ NoDefault) =>
      LET ws == WordsOf(sess[i].argument) IN
      (Len(ws) >= 1 /\ IsAliasFlagToken(parser, ws[1]) /\ AllPlain(Tail(ws))) =>
        LET name == Entry(parser.params, Tail(ws[1])).name IN
        /\ sess[i].result[FieldName(name)] = VTrue
        /\ \A k \in FlagEntries(parser) :
             parser.params[k].name # name
             => sess[i].result[FieldName(parser.params[k].name)] = VBool(FALSE)
        /\ sess[i].result[s_remainder] = VStr(Join(Tail(ws), <<Space>>))

\* C2: a single-dash token that exactly equals an alias lookup key of an
\* arity-0 option sets that option to true and is fully consumed: it
\* captures no following word, every other arity-0 option stays false and
\* the plain words after it go to the remainder.
C2_AliasFlagConsumed == []C2_Example /\ [][C2_StepEffect]_vars

\* "-h red x" parsed with no default key: hidden is true, remainder "red x"
C2_Witness ==
  /\ Done(1)
  /\ NoDefault
  /\ sess[1].argument = Join(<<w_h, w_red, w_x>>, <<Space>>)
  /\ HasField(1, s_hidden, VTrue)
  /\ HasField(1, s_remainder, VStr(Join(<<w_red, w_x>>, <<Space>>)))

----------------------------------------------------------------------------
\* the token is a single dash followed by exactly an alias lookup key of an
\* option that takes values
IsAliasOptionToken(p, tok) ==
  /\ Len(tok) >= 2
  /\ tok[1] = "-"
  /\ tok[2] # "-"
  /\ HasKey(p.params, Tail(tok))
  /\ Entry(p.params, Tail(tok)).name # Tail(tok)
  /\ Arity(Entry(p.params, Tail(tok))) > 0

\* the iteration appends its token as a plain word (line 243)
AppendStep(i) ==
  /\ StepTaken(i)
  /\ NextWord(sess[i]).raised = ""
  /\ ~LooksLikeFlag(NextWord(sess[i]))

\* no accumulator of a non-default option of arity N > 0 holds more than N
C3_Bounded ==
  \A i \in Slots :
    (Ready /\ sess[i].pc # "idle") =>
      \A k \in 1..Len(parser.params) :
        LET v == parser.params[k] IN
        (/\ Arity(v) > 0
         /\ v.name # parser._default_name
         /\ v.name \in DOMAIN sess[i].data
         /\ sess[i].data[v.name].kind = "list")
        => Len(sess[i].data[v.name].items) <= Arity(v)

\* the word that fills a non-default option sends the target back to the
\* default key, and a word met while the default key is the target is
\* captured there
C3_StepEffect ==
  \A i \in Slots :
    AppendStep(i) =>
      LET s == sess[i]
          cur == s.data[s.current_key]
          word == NextWord(s).argument IN
      /\ (/\ s.current_key # parser._default_name
          /\ Arity(s.current_dict) > 0
          /\ cur.kind = "list"
          /\ Len(cur.items) + 1 = Arity(s.current_dict))
         => /\ sess'[i].current_key = parser._default_name
            /\ sess'[i].data = DictSet(s.data, s.current_key, VList(Append(cur.items, word)))
      /\ (s.current_key = parser._default_name /\ cur.kind = "list")
         => /\ sess'[i].current_key = parser._default_name
            /\ sess'[i].data = DictSet(s.data, s.current_key, VList(Append(cur.items, word)))

\* an option token of arity N followed by at least N plain words, no
\* default key: the first N are the option's value, the rest the remainder
C3_Example ==
  \A i \in Slots :
    (Done(i) /\ NoDefault) =>
      LET ws == WordsOf(sess[i].argument) IN
      (Len(ws) >= 1 /\ IsAliasOptionToken(parser, ws[1]) /\ AllPlain(Tail(ws))) =>
        LET v == Entry(parser.params, Tail(ws[1]))
            n == Arity(v) IN
        Len(ws) - 1 >= n =>
          /\ sess[i].result[FieldName(v.name)] = VStr(Join(SubSeq(ws, 2, n + 1), <<Space>>))
          /\ sess[i].result[s_remainder] = VStr(Join(SubSeq(ws, n + 2, Len(ws)), <<Space>>))

\* C3: an option of arity N > 0 that is not the default key never holds
\* more than N tokens; once N plain words were appended the current target
\* is the default/remainder key again and further plain words go there.
C3_ArityEnforced == []C3_Bounded /\ []C3_Example /\ [][C3_StepEffect]_vars

\* "-cl red x" parsed with no default key: color is "red", remainder "x"
C3_Witness ==
  /\ Done(1)
  /\ NoDefault
  /\ sess[1].argument = Join(<<w_cl, w_red, w_x>>, <<Space>>)
  /\ sess[1].current_key = NoneKey
  /\ HasField(1, s_color, VStr(w_red))
  /\ HasField(1, s_remainder, VStr(w_x))

----------------------------------------------------------------------------
\* the token is a single dash followed by bundle-eligible characters only
\* and is not itself a lookup key
IsBundleToken(p, tok) ==
  /\ Len(tok) >= 2
  /\ tok[1] = "-"
  /\ ~HasKey(p.params, Lower(Tail(tok)))
  /\ \A k \in 2..Len(tok) : <<tok[k]>> \in p.short_flags

BundleNames(p, tok) == {Entry(p.params, <<tok[k]>>).name : k \in 2..Len(tok)}

\* the iteration that handles a bundle sets every flag of it and changes
\* nothing else of the session
C4_StepEffect ==
  \A i \in Slots :
    (StepTaken(i) /\ ~PassOf(sess[i]) /\ IsBundleToken(parser, TokenOf(sess[i])))
    => LET names == BundleNames(parser, TokenOf(sess[i])) IN
       /\ sess'[i].pc = "loop"
       /\ sess'[i].data = [k \in DOMAIN sess[i].data \cup names |->
                             IF k \in names THEN VTrue ELSE sess[i].data[k]]
       /\ sess'[i].current_key = sess[i].current_key
       /\ sess'[i].current_dict = sess[i].current_dict

\* a bundle followed by plain words only, no default key
C4_Example ==
  \A i \in Slots :
    (Done(i) /\ NoDefault) =>
      LET ws == WordsOf(sess[i].argument) IN
      (Len(ws) >= 1 /\ IsBundleToken(parser, ws[1]) /\ AllPlain(Tail(ws))) =>
        /\ \A name \in BundleNames(parser, ws[1]) :
             sess[i].result[FieldName(name)] = VTrue
        /\ sess[i].result[s_remainder] = VStr(Join(Tail(ws), <<Space>>))

\* C4: a single-dash token that is not a lookup key and holds only
\* bundle-eligible characters, in any order, sets every corresponding
\* arity-0 option to true, captures nothing, leaves the current target
\* unchanged and adds nothing to the remainder.
C4_Bundling == []C4_Example /\ [][C4_StepEffect]_vars

\* "-htc x" parsed with no default key
C4_Witness ==
  /\ Done(1)
  /\ NoDefault
  /\ sess[1].argument = Join(<<w_htc, w_x>>, <<Space>>)
  /\ HasField(1, s_hidden, VTrue)
  /\ HasField(1, s_card, VTrue)
  /\ HasField(1, s_time, VTrue)
  /\ HasField(1, s_remainder, VStr(w_x))

----------------------------------------------------------------------------
\* the next token of session s is written as a closed quoted phrase that
\* begins with a dash
QuotedDashNext(s) ==
  /\ NextWord(s).pass_
  /\ get_quoted_word(s.buffer, skip_char(s.buffer, s.index, Space)).sig = "word"

\* the claim as it was made: the phrase leaves the current target as it
\* is and lands in the remainder/default accumulator
C6_Original ==
  \A i \in Slots :
    (/\ StepTaken(i)
     /\ QuotedDashNext(sess[i])
     /\ sess[i].data[parser._default_name].kind = "list")
    => LET s == sess[i]
           lst == s.data[parser._default_name] IN
       /\ sess'[i].pc = "loop"
       /\ sess'[i].current_key = s.current_key
       /\ sess'[i].data = DictSet(s.data, parser._default_name,
                                  VList(Append(lst.items, NextWord(s).argument)))

\* C6 as made: a quoted phrase that begins with a dash sets no option,
\* does not switch the current target and is preserved in the
\* remainder/default field.
C6_QuotedDashInRemainder == [][C6_Original]_vars

\* the phrase is handled as a plain word: appended to the accumulator of
\* the current target, which then changes by the arity rule only; a
\* current target whose entry is a bool stores nothing
C6_StepEffect ==
  \A i \in Slots :
    (StepTaken(i) /\ QuotedDashNext(sess[i]))
    => LET s == sess[i]
           cur == s.data[s.current_key]
           text == NextWord(s).argument
           max_length == Arity(s.current_dict) IN
       /\ sess'[i].pc = "loop"
       /\ sess'[i].current_dict = s.current_dict
       /\ text[1] = "-"
       /\ IF cur.kind = "list"
          THEN /\ sess'[i].data = DictSet(s.data, s.current_key,
                                          VList(Append(cur.items, text)))
               /\ sess'[i].current_key =
                    IF max_length # -1 /\ Len(cur.items) + 1 >= max_length
                    THEN parser._default_name
                    ELSE s.current_key
          ELSE /\ sess'[i].data = s.data
               /\ sess'[i].current_key = s.current_key

\* the text between the quotes of a quoted word
Unquoted(w) == SubSeq(w, 2, Len(w) - 1)

IsQuotedDashWord(w) ==
  Len(w) >= 3 /\ w[1] = Quote /\ w[2] = "-" /\ w[Len(w)] = Quote
  /\ Quote \notin CharSet(Unquoted(w))

\* a quoted dash phrase followed by plain words only, no default key: no
\* flag is set and the remainder holds the phrase and the words
C6_Example ==
  \A i \in Slots :
    (Done(i) /\ NoDefault) =>
      LET ws == WordsOf(sess[i].argument) IN
      (Len(ws) >= 1 /\ IsQuotedDashWord(ws[1]) /\ AllPlain(Tail(ws))) =>
        /\ \A k \in FlagEntries(parser) :
             sess[i].result[FieldName(parser.params[k].name)] = VBool(FALSE)
        /\ sess[i].result[s_remainder] =
             VStr(Join(<<Unquoted(ws[1])>> \o Tail(ws), <<Space>>))

\* C6 (amended): a quoted phrase that begins with a dash is never
\* classified as a flag, whatever the Schema: it is appended literally, as
\* one plain word, to the accumulator of the current target (the
\* remainder/default field when no option is open), after which the target
\* reverts to the default key only when that fills the option's arity.
C6_QuotedDashIsPlainWord == []C6_Example /\ [][C6_StepEffect]_vars

\* '-cl "-h" x' with no default key: color holds "-h", hidden stays false
C6_Witness ==
  /\ Done(1)
  /\ NoDefault
  /\ sess[1].argument = Join(<<w_cl, w_q_h, w_x>>, <<Space>>)
  /\ HasField(1, s_color, VStr(w_h))
  /\ HasField(1, s_hidden, VBool(FALSE))
  /\ HasField(1, s_remainder, VStr(w_x))

----------------------------------------------------------------------------
\* a single-dash token that is no lookup key, holds no bundle-eligible
\* character and no "="
IsUnknownFlagToken(p, tok) ==
  /\ Len(tok) >= 2
  /\ tok[1] = "-"
  /\ tok[2] # "-"
  /\ "=" \notin CharSet(tok)
  /\ ~HasKey(p.params, Lower(Tail(tok)))
  /\ \A k \in 2..Len(tok) : <<LowerChar(tok[k])>> \notin p.short_flags

C7_StepEffect ==
  \A i \in Slots :
    (/\ StepTaken(i)
     /\ ~parser.force
     /\ ~PassOf(sess[i])
     /\ IsUnknownFlagToken(parser, TokenOf(sess[i]))
     /\ sess[i].data[parser._default_name].kind = "list")
    => LET s == sess[i]
           lst == s.data[parser._default_name] IN
       /\ sess'[i].pc = "loop"
       /\ sess'[i].current_key = s.current_key
       /\ sess'[i].current_dict = s.current_dict
       /\ sess'[i].data = DictSet(s.data, parser._default_name,
                                  VList(Append(lst.items, TokenOf(s))))

\* C7: with force off, a flag-looking token that matches no option is no
\* error: the token is appended as literal text to the remainder/default
\* accumulator and parsing goes on with the next token.
C7_UnknownFlagFallsBack == [][C7_StepEffect]_vars

----------------------------------------------------------------------------
\* the claim as it was made: every arity-0 option false, every other
\* option None, remainder "" without a default key
C8_Original ==
  \A i \in Slots :
    (Done(i) /\ sess[i].argument = <<>>) =>
      /\ \A k \in 1..Len(parser.params) :
           LET v == parser.params[k] IN
           sess[i].result[FieldName(v.name)] =
             IF Arity(v) = 0 THEN VBool(FALSE) ELSE VNone
      /\ NoDefault => sess[i].result[s_remainder] = VStr(<<>>)

\* C8 (amended): parsing the empty string yields every arity-0 option
\* other than the default-key option = false and every other option other
\* than the default-key option = None; the default-key option, which
\* starts with an empty accumulator, is "" (true when its arity is 0);
\* remainder is "" when no default key is configured, and there is no
\* remainder field otherwise.
C8_EmptyInput ==
  \A i \in Slots :
    (Done(i) /\ sess[i].argument = <<>>) =>
      /\ \A k \in 1..Len(parser.params) :
           LET v == parser.params[k] IN
           sess[i].result[FieldName(v.name)] =
             IF v.name = parser._default_name
             THEN (IF Arity(v) = 0 THEN VTrue ELSE VStr(<<>>))
             ELSE (IF Arity(v) = 0 THEN VBool(FALSE) ELSE VNone)
      /\ IF NoDefault
         THEN sess[i].result[s_remainder] = VStr(<<>>)
         ELSE s_remainder \notin DOMAIN sess[i].result

\* the empty string parsed with a default key that takes values
C8_Witness ==
  /\ Done(1)
  /\ sess[1].argument = <<>>
  /\ parser._default_key = s_cl
  /\ HasField(1, s_color, VStr(<<>>))
  /\ HasField(1, s_hidden, VBool(FALSE))

----------------------------------------------------------------------------
\* C10: construction fails fast with a configuration error whenever two
\* entries claim the same canonical name or alias, so no parser instance
\* with an ambiguous lookup can be used for parsing.
C10_ClashFailsFast == Ready => ~NameClash(parser.params)

----------------------------------------------------------------------------
\* the tokens --N=v and -K
ShorthandToken(name, v) == <<"-", "-">> \o name \o <<"=">> \o v
AliasToken(key) == <<"-">> \o key

\* the raw string long is "--N=v rest" and short is "-K v rest" for the
\* arity-1 entry e, a plain value v and plain trailing words
ShorthandPair(e, long, short) ==
  LET lw == WordsOf(long)
      sw == WordsOf(short) IN
  /\ Arity(e) = 1
  /\ Len(lw) >= 1
  /\ Len(sw) >= 2
  /\ sw[1] = AliasToken(e.key)
  /\ PlainWord(sw[2])
  /\ "=" \notin CharSet(sw[2])
  /\ lw[1] = ShorthandToken(e.name, sw[2])
  /\ Tail(lw) = Tail(Tail(sw))
  /\ AllPlain(Tail(lw))

\* the field that receives the words no option captures
RemainderField ==
  IF NoDefault THEN s_remainder ELSE FieldName(parser._default_name)

\* two Result Records agree on field f
SameField(r1, r2, f) ==
  /\ (f \in DOMAIN r1) = (f \in DOMAIN r2)
  /\ f \in DOMAIN r1 => r1[f] = r2[f]

\* the two finished calls of a shorthand pair agree on the option and on
\* the remainder
ShorthandAgrees(e, i, j) ==
  (Done(i) /\ Done(j) /\ ShorthandPair(e, sess[i].argument, sess[j].argument))
  => /\ SameField(sess[i].result, sess[j].result, FieldName(e.name))
     /\ SameField(sess[i].result, sess[j].result, RemainderField)

\* C5 as stated: for every arity-1 option with lookup key K and name N,
\* parse("--N=v rest") and parse("-K v rest") yield the same value of the
\* option and the same remainder.
C5_Original ==
  Ready =>
    \A k \in 1..Len(parser.params) : \A i, j \in Slots :
      ShorthandAgrees(parser.params[k], i, j)

\* C5: for every arity-1 option whose lookup key K is an alias (K differs
\* from its name N), neither parse("--N=v rest") nor parse("-K v rest")
\* raises, and the two yield the same value of the option and the same
\* remainder; the value is v unless the option is the default key's, which
\* also receives the trailing words.
C5_ShorthandEquivalence ==
  Ready =>
    \A k \in 1..Len(parser.params) :
      LET e == parser.params[k] IN
      e.key # e.name =>
        \A i, j \in Slots :
          /\ ShorthandAgrees(e, i, j)
          /\ ShorthandPair(e, sess[i].argument, sess[j].argument)
             => /\ sess[i].pc # "raised"
                /\ sess[j].pc # "raised"
                /\ (Done(j) /\ parser._default_key # e.key)
                   => HasField(j, FieldName(e.name),
                               VStr(WordsOf(sess[j].argument)[2]))

\* both calls of the pair "--color=red x", "-cl red x" finished on one
\* instance and color is "red" in both
C5_Witness ==
  /\ Done(1)
  /\ Done(2)
  /\ sess[1].argument = Join(<<w_color_eq_red, w_x>>, <<Space>>)
  /\ sess[2].argument = Join(<<w_cl, w_red, w_x>>, <<Space>>)
  /\ HasField(1, s_color, VStr(w_red))
  /\ HasField(2, s_color, VStr(w_red))

----------------------------------------------------------------------------
\* the log never holds two different Result Records for one raw string
LogFunctional ==
  \A a, b \in 1..Len(returned) :
    returned[a][1] = returned[b][1] => returned[a][2] = returned[b][2]

\* every Result Record returned is the one a call on its own computes from
\* the instance and the raw string
LogFresh ==
  \A a \in 1..Len(returned) :
    LET fresh == parse(parser, returned[a][1]) IN
    /\ fresh.pc = "done"
    /\ fresh.result = returned[a][2]

\* a parse call never changes the instance
InstanceReadOnly == Ready => parser' = parser

\* a call changes the session of no other call
SessionsApart ==
  \A i, j \in Slots :
    (i # j /\ sess'[i] # sess[i]) => sess'[j] = sess[j]

\* C9: one instance is reused and shared: every Result Record returned,
\* whatever ran before or is in flight on the instance, is the one a call
\* on a fresh session computes from the Schema and the raw string; calls
\* never change the instance nor each other's session.
C9_CallsIndependent ==
  /\ [](LogFunctional /\ LogFresh)
  /\ [][InstanceReadOnly /\ SessionsApart]_vars

\* a raw string was parsed twice on one instance with the same Result
\* Record, first on the fresh instance and again by a call that overlapped
\* the call of another raw string
C9_Witness ==
  /\ Len(returned) >= 3
  /\ returned[1][1] = returned[3][1]
  /\ returned[1][2] = returned[3][2]
  /\ returned[2][1] # returned[1][1]
  /\ \E i, j \in Slots :
       /\ i # j
       /\ Done(i)
       /\ Done(j)
       /\ sess[i].argument = returned[2][1]
       /\ sess[j].argument = returned[3][1]

----------------------------------------------------------------------------
\* the field of option entry v in the Result Record of slot i
FieldOf(i, v) == sess[i].result[FieldName(v.name)]

\* C11: an arity-0 option is a boolean flag that consumes no value token:
\* in every Result Record its field is a boolean, whichever form targeted
\* the option, and no plain word is captured into it.
C11_FlagFieldsBoolean ==
  \A i \in Slots :
    Done(i) =>
      \A k \in FlagEntries(parser) :
        /\ FieldName(parser.params[k].name) \in DOMAIN sess[i].result
        /\ FieldOf(i, parser.params[k]).kind = "bool"

----------------------------------------------------------------------------
\* the entry a bare token selects by its shape: a single dash and an alias
\* lookup key of an option that takes values, or two dashes and a canonical
\* name or alias; NoEntry if it selects none
SelectedEntry(p, tok) ==
  LET key == Lower(LStripDash(tok))
      hits == {k \in 1..Len(p.params) :
                 key = p.params[k].name
                 \/ \E a \in 1..Len(p.params[k].aliases) : p.params[k].aliases[a] = key}
  IN
  IF Len(tok) < 2 \/ tok[1] # "-" \/ "=" \in CharSet(tok) THEN NoEntry
  ELSE IF tok[2] # "-"
  THEN IF HasKey(p.params, key) /\ Entry(p.params, key).name # key
          /\ Arity(Entry(p.params, key)) # 0
       THEN Entry(p.params, key)
       ELSE NoEntry
  ELSE IF Len(tok) >= 3 /\ tok[3] # "-" /\ hits # {}
  THEN p.params[CHOOSE k \in hits : \A h \in hits : k <= h]
  ELSE NoEntry

\* the first n elements of xs, all of them if n is -1
Take(xs, n) == IF n = -1 \/ n >= Len(xs) THEN xs ELSE SubSeq(xs, 1, n)

\* replace=true: the iteration that handles a bare token selecting an option
\* makes it the current target and restarts its accumulator, unless it is
\* the default key's option, whose accumulator is kept
C12_StepEffect ==
  \A i \in Slots :
    LET e == SelectedEntry(parser, TokenOf(sess[i])) IN
    (StepTaken(i) /\ parser.replace /\ ~PassOf(sess[i]) /\ e # NoEntry)
    => /\ sess'[i].pc = "loop"
       /\ sess'[i].current_key = e.name
       /\ sess'[i].current_dict = e
       /\ sess'[i].data =
            IF e.name # parser._default_name
            THEN DictSet(sess[i].data, e.name, VList(<<>>))
            ELSE sess[i].data

\* replace=true: the field of an option other than the default key's holds
\* only the plain words that follow its last occurrence, as many as its
\* arity allows
C12_LastWins ==
  \A i \in Slots :
    (Done(i) /\ parser.replace) =>
      LET ws == WordsOf(sess[i].argument) IN
      \A k \in 1..Len(ws) :
        LET e == SelectedEntry(parser, ws[k])
            rest == SubSeq(ws, k + 1, Len(ws)) IN
        (e # NoEntry /\ e.name # parser._default_name /\ Arity(e) # 0
           /\ AllPlain(rest))
        => HasField(i, FieldName(e.name),
                    VStr(Join(Take(rest, Arity(e)), <<Space>>)))

\* replace=true: when the only flag-looking tokens of the input select the
\* default key's option, its field holds every plain word of the input
C12_DefaultKeeps ==
  \A i \in Slots :
    (Done(i) /\ parser.replace /\ ~NoDefault) =>
      LET ws == WordsOf(sess[i].argument)
          plain == SelectSeq(ws, PlainWord) IN
      (\A k \in 1..Len(ws) :
          \/ PlainWord(ws[k])
          \/ /\ SelectedEntry(parser, ws[k]) # NoEntry
             /\ SelectedEntry(parser, ws[k]).name = parser._default_name)
      => HasField(i, FieldName(parser._default_name),
                  VStr(Join(plain, <<Space>>)))

\* C12: last occurrence wins under replace=true: a token that selects an
\* option switches the current target to it and restarts its accumulator
\* if and only if it is not the default key's option, so the final field
\* holds only the words captured after the last occurrence; the default
\* key's option keeps the words it absorbed.
C12_LastOccurrenceWins ==
  /\ [](C12_LastWins /\ C12_DefaultKeeps)
  /\ [][C12_StepEffect]_vars

\* "--color=red -cl x" parsed with replace=true and no default key: color
\* is "x" and "red" is nowhere
C12_Witness ==
  /\ Done(1)
  /\ parser.replace
  /\ NoDefault
  /\ sess[1].argument = Join(<<w_color_eq_red, w_cl, w_x>>, <<Space>>)
  /\ HasField(1, s_color, VStr(w_x))
  /\ HasField(1, s_remainder, VStr(<<>>))

----------------------------------------------------------------------------
\* replace=false: the iteration that handles a bare token selecting an
\* option that has an entry in the session appends the token to the
\* remainder/default accumulator and changes nothing else
C13_StepEffect ==
  \A i \in Slots :
    LET tok == TokenOf(sess[i])
        e == SelectedEntry(parser, tok)
        default == parser._default_name IN
    (StepTaken(i) /\ ~parser.replace /\ ~PassOf(sess[i]) /\ e # NoEntry
       /\ e.name # default /\ e.name \in DOMAIN sess[i].data
       /\ sess[i].data[default].kind = "list")
    => /\ sess'[i].pc = "loop"
       /\ sess'[i].current_key = sess[i].current_key
       /\ sess'[i].current_dict = sess[i].current_dict
       /\ sess'[i].data =
            DictSet(sess[i].data, default,
                    VList(Append(sess[i].data[default].items, tok)))

\* C13: with replace=false a token that targets an option which already
\* has an entry in the session does not replace the value: it is appended
\* to the remainder/default accumulator, and the option's accumulator and
\* the current target stay as they were, for every state of the remainder,
\* an empty one included.
C13_KeepsExisting == [][C13_StepEffect]_vars

----------------------------------------------------------------------------
\* no field of the Result Record of slot i holds a flag-looking word that
\* matches no option
NoUnknownFlagKept(i) ==
  \A f \in DOMAIN sess[i].result :
    sess[i].result[f].kind = "str" =>
      LET ws == WordsOf(sess[i].result[f].s) IN
      \A k \in 1..Len(ws) : ~IsUnknownFlagToken(parser, ws[k])

\* C14: with force=true a flag-looking token that matches no option is
\* discarded: no error is raised and the token appears in no field of the
\* Result Record, for either value of replace.
C14_UnknownFlagDiscarded ==
  \A i \in Slots :
    (Ready /\ parser.force
       /\ \E k \in 1..Len(WordsOf(sess[i].argument)) :
            IsUnknownFlagToken(parser, WordsOf(sess[i].argument)[k]))
    => /\ sess[i].pc # "raised"
       /\ sess[i].pc = "done" => NoUnknownFlagKept(i)

----------------------------------------------------------------------------
\* the plain words of a joined field value
PlainWordsOf(v) == SelectSeq(WordsOf(v.s), PlainWord)

\* the input of slot i holds no token that selects or sets an option: each
\* word is plain or a flag-looking token that matches nothing
NothingClaimed(i) ==
  LET ws == WordsOf(sess[i].argument) IN
  \A k \in 1..Len(ws) : PlainWord(ws[k]) \/ IsUnknownFlagToken(parser, ws[k])

\* C15: the plain words no option claims are captured, in input order, in
\* the default key's field when a default key is configured, and the record
\* then has no remainder field; with no default key the same words form
\* the remainder field.
C15_UnclaimedWords ==
  \A i \in Slots :
    (Done(i) /\ NothingClaimed(i)) =>
      LET plain == SelectSeq(WordsOf(sess[i].argument), PlainWord)
          f == RemainderField IN
      /\ f \in DOMAIN sess[i].result
      /\ sess[i].result[f].kind = "str"
      /\ PlainWordsOf(sess[i].result[f]) = plain
      /\ ~NoDefault => s_remainder \notin DOMAIN sess[i].result

----------------------------------------------------------------------------
\* the fields the Schema prescribes: one per option, and remainder if and
\* only if no default key is configured
SchemaFields ==
  {FieldName(parser.params[k].name) : k \in 1..Len(parser.params)}
    \cup (IF NoDefault THEN {s_remainder} ELSE {})

\* C16: for a given Schema every Result Record has the same field set: one
\* field per configured option, named by the canonical name with hyphens
\* replaced by underscores, plus remainder if and only if no default key
\* is configured, and no other field.
C16_FixedFieldSet ==
  \A i \in Slots : Done(i) => DOMAIN sess[i].result = SchemaFields

\* "-z -htc x" parsed with force=true against the Schema that has the option
\* no-op: the record has the field no_op and its field set is the Schema's
C16_Witness ==
  /\ Done(1)
  /\ parser.force
  /\ sess[1].argument = Join(<<w_z, w_htc, w_x>>, <<Space>>)
  /\ <<"n", "o", "_", "o", "p">> \in DOMAIN sess[1].result
  /\ s_no_op \notin DOMAIN sess[1].result
  /\ DOMAIN sess[1].result = SchemaFields

----------------------------------------------------------------------------
\* the step is the return of parse in slot i
FinishTaken(i) == Ready /\ sess[i].pc = "loop" /\ sess'[i].pc = "done"

\* finish gives every option that takes values null if it has no
\* accumulator and its words joined by single spaces otherwise, and joins
\* the implicit remainder the same way
C17_FinishEffect ==
  \A i \in Slots :
    FinishTaken(i) =>
      /\ \A k \in 1..Len(parser.params) :
           LET e == parser.params[k]
               f == FieldName(e.name) IN
           Arity(e) # 0 =>
             /\ f \in DOMAIN sess'[i].result
             /\ sess'[i].result[f] =
                  IF e.name \notin DOMAIN sess[i].data THEN VNone
                  ELSE VStr(Join(sess[i].data[e.name].items, <<Space>>))
      /\ NoDefault =>
           sess'[i].result[s_remainder] =
             VStr(Join(sess[i].data[NoneKey].items, <<Space>>))

\* the accumulator of an option that takes values is a list of words
C17_Accumulators ==
  \A i \in Slots :
    (Ready /\ sess[i].pc = "loop") =>
      \A k \in 1..Len(parser.params) :
        (Arity(parser.params[k]) # 0
           /\ parser.params[k].name \in DOMAIN sess[i].data)
        => sess[i].data[parser.params[k].name].kind = "list"

\* the words ws after the first n, none if n is -1
Drop(ws, n) == IF n = -1 \/ n >= Len(ws) THEN <<>> ELSE SubSeq(ws, n + 1, Len(ws))

\* an input with plain words and exactly one token, which selects an option
\* e that takes values: e captures the words after the token, as many as
\* its arity allows and all of them if it is unbounded; the other words go
\* to the remainder or default field; the default key's option holds every
\* plain word when it is the one selected; every other option that takes
\* values and is not the default key's is null
C17_SingleOption ==
  \A i \in Slots :
    Done(i) =>
      LET ws == WordsOf(sess[i].argument) IN
      \A k \in 1..Len(ws) :
        LET e == SelectedEntry(parser, ws[k])
            before == SubSeq(ws, 1, k - 1)
            rest == SubSeq(ws, k + 1, Len(ws)) IN
        (e # NoEntry /\ Arity(e) # 0 /\ AllPlain(before) /\ AllPlain(rest))
        => /\ e.name # parser._default_name =>
                /\ HasField(i, FieldName(e.name),
                            VStr(Join(Take(rest, Arity(e)), <<Space>>)))
                /\ HasField(i, RemainderField,
                            VStr(Join(before \o Drop(rest, Arity(e)), <<Space>>)))
           /\ e.name = parser._default_name =>
                /\ sess[i].result[RemainderField].kind = "str"
                /\ PlainWordsOf(sess[i].result[RemainderField]) = before \o rest
           /\ \A j \in 1..Len(parser.params) :
                LET o == parser.params[j] IN
                (Arity(o) # 0 /\ o.name # e.name /\ o.name # parser._default_name)
                => HasField(i, FieldName(o.name), VNone)

\* C17: finalization of value options: the field of an option with arity
\* other than 0 is null if the option was never targeted and otherwise the
\* words captured for it, in input order, joined by single spaces; an
\* unbounded option captures every plain word that follows it; the
\* implicit remainder is joined the same way.
C17_ValueOptions ==
  /\ [](C17_Accumulators /\ C17_SingleOption)
  /\ [][C17_FinishEffect]_vars

\* "-t red x" parsed with no default key against the Schema whose option
\* time is unbounded: time is "red x", size and color are null
C17_Witness ==
  /\ Done(1)
  /\ NoDefault
  /\ sess[1].argument = Join(<<w_t, w_red, w_x>>, <<Space>>)
  /\ HasField(1, s_time, VStr(Join(<<w_red, w_x>>, <<Space>>)))
  /\ HasField(1, s_size, VNone)
  /\ HasField(1, s_color, VNone)
  /\ HasField(1, s_remainder, VStr(<<>>))

----------------------------------------------------------------------------
\* the token is a single dash followed by a lookup key that is its own
\* canonical name
IsOwnNameToken(p, tok) ==
  /\ Len(tok) >= 2
  /\ tok[1] = "-"
  /\ tok[2] # "-"
  /\ HasKey(p.params, Lower(Tail(tok)))
  /\ Entry(p.params, Lower(Tail(tok))).name = Lower(Tail(tok))

\* the accumulators that exist and are set to true are the same in d1, d2
SameFlags(p, d1, d2) ==
  \A k \in FlagEntries(p) :
    LET n == p.params[k].name IN
    /\ (n \in DOMAIN d1) = (n \in DOMAIN d2)
    /\ n \in DOMAIN d1 => d1[n] = d2[n]

\* the iteration that handles an own-name token does not make the option
\* the current target, leaves its accumulator alone and sets no flag
C18_StepEffect ==
  \A i \in Slots :
    LET tok == TokenOf(sess[i])
        n == Lower(Tail(tok)) IN
    (StepTaken(i) /\ ~PassOf(sess[i]) /\ IsOwnNameToken(parser, tok))
    => /\ sess'[i].current_key = n => sess[i].current_key = n
       /\ (n \in DOMAIN sess'[i].data) = (n \in DOMAIN sess[i].data)
       /\ n \in DOMAIN sess[i].data => sess'[i].data[n] = sess[i].data[n]
       /\ SameFlags(parser, sess[i].data, sess'[i].data)

\* an input of own-name tokens and plain words sets no flag and gives no
\* value to an option that is not the default key's
C18_Example ==
  \A i \in Slots :
    Done(i) =>
      LET ws == WordsOf(sess[i].argument) IN
      (\A k \in 1..Len(ws) : PlainWord(ws[k]) \/ IsOwnNameToken(parser, ws[k]))
      => \A k \in 1..Len(parser.params) :
           LET e == parser.params[k] IN
           e.name # parser._default_name =>
             HasField(i, FieldName(e.name),
                      IF Arity(e) = 0 THEN VBool(FALSE) ELSE VNone)

\* C18: a single-dash token whose text is a lookup key that is its own
\* canonical name is unmatched: it does not select that option and it is
\* not resolved as a bundle, so no bundle-eligible character in it sets a
\* flag.
C18_OwnNameUnmatched == []C18_Example /\ [][C18_StepEffect]_vars

\* "-color red" parsed with force=true against the Schema that has the key
\* color and the short flag c: color is null and card is false
C18_Witness ==
  /\ Done(1)
  /\ HasKey(parser.params, s_color)
  /\ s_c \in parser.short_flags
  /\ sess[1].argument = Join(<<w_color, w_red>>, <<Space>>)
  /\ HasField(1, s_color, VNone)
  /\ HasField(1, s_card, VBool(FALSE))

----------------------------------------------------------------------------
\* the cursor of slot i after the separator run
TokenStart(s) == skip_char(s.buffer, s.index, Space)

\* the next extraction of slot i signals an unterminated quote
QuoteSignalled(s) == get_quoted_word(s.buffer, TokenStart(s)).sig = "quote"

\* the iteration in which the tokenizer signals an unterminated quote makes
\* one token of the input from the opening quote on, appends it to the
\* current target's accumulator as a literal word and leaves the call in
\* its loop at end-of-input
C19_StepEffect ==
  \A i \in Slots :
    (StepTaken(i) /\ QuoteSignalled(sess[i])) =>
      LET s == sess[i]
          token == Slice(s.buffer, TokenStart(s), Len(s.buffer))
          old == s.data[s.current_key] IN
      /\ token[1] = Quote
      /\ sess'[i].pc = "loop"
      /\ eof(sess'[i].buffer, sess'[i].index)
      /\ old.kind = "list" =>
           sess'[i].data = DictSet(s.data, s.current_key,
                                   VList(Append(old.items, token)))

\* no call ends with the tokenizer's signal
C19_NoQuoteAbort ==
  \A i \in Slots : sess[i].error # "UnexpectedQuoteError"

\* the word opens a quote that the rest of the input does not close
OpensQuote(w) == w # <<>> /\ w[1] = Quote /\ Quote \notin CharSet(Tail(w))

\* plain words followed by an unterminated quote, no default key: the call
\* returns and the remainder is the input as written
C19_Example ==
  \A i \in Slots :
    LET ws == WordsOf(sess[i].argument) IN
    (Ready /\ NoDefault /\ sess[i].pc # "idle" /\ ws # <<>>
       /\ OpensQuote(ws[Len(ws)]) /\ AllPlain(SubSeq(ws, 1, Len(ws) - 1)))
    => /\ sess[i].pc # "raised"
       /\ sess[i].pc = "done" =>
            HasField(i, s_remainder, VStr(sess[i].argument))

----------------------------------------------------------------------------
\* the token holds "=" and splitting it on "=" yields no empty part
IsShorthandToken(tok) ==
  /\ Len(tok) >= 2
  /\ tok[1] = "-"
  /\ "=" \in CharSet(tok)
  /\ \A k \in 1..Len(Split(tok, "=")) : Split(tok, "=")[k] # <<>>

\* the text before and the text after the first "=" of the token
LeftOf(tok) == Split(tok, "=")[1]
RightOf(tok) == SubSeq(tok, Len(LeftOf(tok)) + 2, Len(tok))

\* the iteration that handles a shorthand token whose left part selects an
\* option that takes values appends the text after the first "=" as the
\* next value of that option and handles the token no further: the call
\* stays in its loop and the remainder/default accumulator is untouched
C20_StepEffect ==
  \A i \in Slots :
    LET tok == TokenOf(sess[i])
        e == SelectedEntry(parser, LeftOf(tok))
        default == parser._default_name IN
    (StepTaken(i) /\ ~PassOf(sess[i]) /\ IsShorthandToken(tok)
       /\ e # NoEntry /\ Arity(e) # 0 /\ e.name # default)
    => /\ sess'[i].pc = "loop"
       /\ e.name \in DOMAIN sess'[i].data
       /\ sess'[i].data[e.name].kind = "list"
       /\ sess'[i].data[e.name].items # <<>>
       /\ LET items == sess'[i].data[e.name].items IN
          items[Len(items)] = RightOf(tok)
       /\ sess'[i].data[default] = sess[i].data[default]

\* C20: a flag-looking token is handled as key=value shorthand only when
\* splitting it on "=" yields no empty part; the left part is classified
\* with bundling disabled and, on a match, the text after the first "=" is
\* appended as the next value of the matched option, subject to its arity,
\* and the token is not processed again as a bare flag.
C20_ShorthandHandled == [][C20_StepEffect]_vars

----------------------------------------------------------------------------
\* the characters of the token after the dash that are bundle-eligible, and
\* what is left of the text after the dash without them
PeeledFlags(p, tok) == {f \in p.short_flags : f[1] \in CharSet(Tail(tok))}

Suffix(p, tok) ==
  LET Stays(ch) == <<ch>> \notin p.short_flags IN SelectSeq(Tail(tok), Stays)

\* a single-dash token that is no lookup key, holds bundle-eligible
\* characters and, without them, leaves a lookup key after the dash
IsBundleSuffixToken(p, tok) ==
  /\ Len(tok) >= 3
  /\ tok[1] = "-"
  /\ tok[2] # "-"
  /\ "=" \notin CharSet(tok)
  /\ ~HasKey(p.params, Lower(Tail(tok)))
  /\ PeeledFlags(p, tok) # {}
  /\ HasKey(p.params, Suffix(p, tok))

\* data with every flag peeled out of the token set to true
WithFlags(p, tok, data) ==
  LET names == {Entry(p.params, f).name : f \in PeeledFlags(p, tok)} IN
  [k \in DOMAIN data \cup names |-> IF k \in names THEN VTrue ELSE data[k]]

\* the iteration that handles a bundle with a trailing option sets the
\* flags, makes the option the current target and empties its accumulator
C21_Original ==
  \A i \in Slots :
    LET tok == TokenOf(sess[i])
        e == Entry(parser.params, Suffix(parser, tok)) IN
    (StepTaken(i) /\ ~PassOf(sess[i]) /\ IsBundleSuffixToken(parser, tok))
    => /\ sess'[i].pc = "loop"
       /\ sess'[i].current_key = e.name
       /\ sess'[i].data =
            DictSet(WithFlags(parser, tok, sess[i].data), e.name, VList(<<>>))

\* C21 as stated: when peeling the bundle-eligible characters leaves a
\* lookup key after the dash, that option becomes the current target with
\* an empty accumulator, in addition to the flags already set.
C21_SuffixAlwaysRetargets == [][C21_Original]_vars

\* under replace=true, or when the option has no entry yet, the iteration
\* sets the flags, makes the option the current target and restarts its
\* accumulator unless it is the default key's option
C21_StepEffect ==
  \A i \in Slots :
    LET tok == TokenOf(sess[i])
        e == Entry(parser.params, Suffix(parser, tok))
        flagged == WithFlags(parser, tok, sess[i].data) IN
    (StepTaken(i) /\ ~PassOf(sess[i]) /\ IsBundleSuffixToken(parser, tok)
       /\ (parser.replace \/ e.name \notin DOMAIN sess[i].data))
    => /\ sess'[i].pc = "loop"
       /\ sess'[i].current_key = e.name
       /\ sess'[i].current_dict = e
       /\ sess'[i].data =
            IF e.name # parser._default_name
            THEN DictSet(flagged, e.name, VList(<<>>))
            ELSE flagged

\* a bundle with a trailing option followed by plain words: the flags are
\* true and the option, when it is not the default key's, holds as many of
\* the words as its arity allows
C21_Example ==
  \A i \in Slots :
    Done(i) =>
      LET ws == WordsOf(sess[i].argument) IN
      (Len(ws) >= 1 /\ IsBundleSuffixToken(parser, ws[1]) /\ AllPlain(Tail(ws)))
      => LET e == Entry(parser.params, Suffix(parser, ws[1])) IN
         /\ \A f \in PeeledFlags(parser, ws[1]) :
              HasField(i, FieldName(Entry(parser.params, f).name), VTrue)
         /\ e.name # parser._default_name =>
              HasField(i, FieldName(e.name),
                       VStr(Join(Take(Tail(ws), Arity(e)), <<Space>>)))

\* C21: bundle with trailing option: when peeling the bundle-eligible
\* characters leaves a lookup key after the dash, then, under replace=true
\* or when the option has no entry yet, that option becomes the current
\* target in addition to the flags already set, and its accumulator
\* restarts empty unless it is the default key's option.
C21_BundleWithOption == []C21_Example /\ [][C21_StepEffect]_vars

\* "-hs red x" parsed with no default key: hidden is true, size "red x"
C21_Witness ==
  /\ Done(1)
  /\ NoDefault
  /\ sess[1].argument = Join(<<w_hs, w_red, w_x>>, <<Space>>)
  /\ HasField(1, s_hidden, VTrue)
  /\ HasField(1, s_size, VStr(Join(<<w_red, w_x>>, <<Space>>)))
  /\ HasField(1, s_remainder, VStr(<<>>))

----------------------------------------------------------------------------
\* the step leaves every attribute of the constructed instance as it was
SchemaKept ==
  /\ parser'.state = "ready"
  /\ parser'.params = parser.params
  /\ parser'.valid_names = parser.valid_names
  /\ parser'.short_flags = parser.short_flags
  /\ parser'.force = parser.force
  /\ parser'.replace = parser.replace
  /\ parser'._default_key = parser._default_key
  /\ parser'._default_name = parser._default_name

\* C22: parse never modifies the Schema: params, valid_names, short_flags,
\* force, replace and the default key and name are the same before and
\* after every step of every parse call, whatever the input and whether
\* the call returns or raises.
C22_SchemaUnchanged == [][Ready => SchemaKept]_vars

\* a call raised after it had set a flag in its own session
C22_Witness ==
  /\ Ready
  /\ sess[1].pc = "raised"
  /\ \E n \in DOMAIN sess[1].data : sess[1].data[n] = VTrue

----------------------------------------------------------------------------
\* the token makes no option the new target: an alias flag, a pure bundle,
\* or, with force off, a flag-looking token that matches nothing
NoNewOptionToken(p, tok) ==
  \/ IsAliasFlagToken(p, tok)
  \/ IsBundleToken(p, tok)
  \/ (~p.force /\ IsUnknownFlagToken(p, tok))

\* the iteration that handles such a token while an option other than the
\* default one is open keeps the target and the option's accumulator
C23_StepEffect ==
  \A i \in Slots :
    LET s == sess[i] IN
    (/\ StepTaken(i)
     /\ ~PassOf(s)
     /\ NoNewOptionToken(parser, TokenOf(s))
     /\ s.current_key # parser._default_name
     /\ s.current_key \in DOMAIN s.data
     /\ s.data[s.current_key].kind = "list")
    => /\ sess'[i].pc = "loop"
       /\ sess'[i].current_key = s.current_key
       /\ sess'[i].current_dict = s.current_dict
       /\ s.current_key \in DOMAIN sess'[i].data
       /\ sess'[i].data[s.current_key] = s.data[s.current_key]

\* C23: whenever token classification reports no new option (an alias flag
\* was set, a pure bundle was consumed, or an unmatched token fell back to
\* literal text), the current target is unchanged and the accumulator of
\* the option that was open is untouched, so the plain words that follow
\* keep accumulating in that option.
C23_OpenOptionKept == [][C23_StepEffect]_vars

----------------------------------------------------------------------------
\* C24: in every reachable state of a parse the current target key is
\* present in the accumulator map and its value is a sequence: no sequence
\* of flag and option tokens leaves the current target pointing at a
\* boolean or a missing entry.
C24_TargetIsSequence ==
  \A i \in Slots :
    (Ready /\ sess[i].pc = "loop")
    => /\ sess[i].current_key \in DOMAIN sess[i].data
       /\ sess[i].data[sess[i].current_key].kind = "list"

----------------------------------------------------------------------------
\* a single-dash token that is no lookup key, holds bundle-eligible
\* characters and, without them, leaves a text that is no lookup key
IsUnmatchedBundleToken(p, tok) ==
  /\ Len(tok) >= 3
  /\ tok[1] = "-"
  /\ tok[2] # "-"
  /\ "=" \notin CharSet(tok)
  /\ ~HasKey(p.params, Lower(Tail(tok)))
  /\ PeeledFlags(p, tok) # {}
  /\ Suffix(p, tok) # <<>>
  /\ ~HasKey(p.params, Suffix(p, tok))

\* with force off, the iteration that handles a flag-looking token that
\* matches no option appends the token as typed to the default
\* accumulator and changes no other accumulator
C25_StepEffect ==
  \A i \in Slots :
    LET s == sess[i]
        tok == TokenOf(s) IN
    (/\ StepTaken(i)
     /\ ~parser.force
     /\ ~PassOf(s)
     /\ (IsUnknownFlagToken(parser, tok) \/ IsUnmatchedBundleToken(parser, tok))
     /\ s.data[parser._default_name].kind = "list")
    => /\ sess'[i].pc = "loop"
       /\ sess'[i].data =
            DictSet(s.data, parser._default_name,
                    VList(Append(s.data[parser._default_name].items, tok)))

\* the peeling of a token that is finally unmatched leaves the flags as
\* they were, whether the step falls back, discards the token or raises
C25_NoPartialPeel ==
  \A i \in Slots :
    (/\ StepTaken(i)
     /\ ~PassOf(sess[i])
     /\ IsUnmatchedBundleToken(parser, TokenOf(sess[i])))
    => SameFlags(parser, sess[i].data, sess'[i].data)

\* C25: fallback is all-or-nothing: when a flag-looking token ends up as
\* literal remainder text (no option matched, force off), the text appended
\* to the remainder is the token exactly as typed and no option's value was
\* changed by that token; bundle peeling neither sets flags nor strips
\* characters from a token that is finally unmatched.
C25_FallbackAllOrNothing == [][C25_StepEffect /\ C25_NoPartialPeel]_vars

----------------------------------------------------------------------------
\* the words of ws after position k
WordsAfter(ws, k) == [j \in 1..(Len(ws) - k) |-> ws[k + j]]

\* C26: with force on only the unrecognised flag token itself is lost:
\* every plain word that follows a discarded unknown flag is still
\* captured and reported, in the default option's field when a default key
\* is configured and in remainder otherwise.
C26_WordsAfterDiscardedFlag ==
  \A i \in Slots :
    (Done(i) /\ parser.force /\ NothingClaimed(i)) =>
      LET ws == WordsOf(sess[i].argument)
          f == RemainderField IN
      \A k \in 1..Len(ws) :
        (IsUnknownFlagToken(parser, ws[k]) /\ AllPlain(WordsAfter(ws, k)))
        => /\ f \in DOMAIN sess[i].result
           /\ sess[i].result[f].kind = "str"
           /\ LET got == PlainWordsOf(sess[i].result[f])
                  n == Len(ws) - k IN
              /\ Len(got) >= n
              /\ WordsAfter(got, Len(got) - n) = WordsAfter(ws, k)

----------------------------------------------------------------------------
\* an iteration of the loop moves the cursor forward by at least one
\* character
C27_Progress ==
  \A i \in Slots :
    (Ready /\ sess[i].pc = "loop" /\ sess'[i] # sess[i]
       /\ ~eof(sess[i].buffer, sess[i].index))
    => /\ sess'[i].index > sess[i].index
       /\ sess'[i].index <= Len(sess[i].buffer)

C27_CursorAdvances == [][C27_Progress]_vars

\* C27: parse terminates on every finite input: every iteration of the
\* loop advances the cursor or leaves it at end-of-input, so a call that
\* has begun is either still in its loop or has reached end-of-input and
\* run finalization exactly once.
C27_EndsInFinalization ==
  \A i \in Slots :
    (Ready /\ sess[i].pc # "idle")
    => \/ /\ sess[i].pc = "loop"
          /\ sess[i].index <= Len(sess[i].buffer)
          /\ returned = <<>>
       \/ /\ sess[i].pc = "done"
          /\ eof(sess[i].buffer, sess[i].index)
          /\ returned = << <<sess[i].argument, sess[i].result>> >>

============================================================================
